---- MODULE Spec2Model ----
(***************************************************************************)
(* phastly: a promise-returning client of the Fastly API.                  *)
(*                                                                         *)
(* The state is the module-level credential (fastlyApiKey), the calls made *)
(* to sendP and the endpoint helpers with the promise each returned, and   *)
(* the requests handed to the HTTP transport.  JavaScript values are       *)
(* encoded as follows:                                                     *)
(*   - an optional value is a sequence of length at most one: <<>> is      *)
(*     undefined, <<v>> is v;                                              *)
(*   - an object (headers, params, a decoded JSON object) is a set of      *)
(*     <<key, value>> pairs with at most one pair per key;                 *)
(*   - numbers placed in template strings or headers are written as the    *)
(*     string JavaScript converts them to ("1", "2").                      *)
(***************************************************************************)
EXTENDS Integers, Sequences, FiniteSets, TLC

VARIABLES fastlyApiKey, calls, wire, filtered

vars == <<fastlyApiKey, calls, wire, filtered>>

\* ------------------------------------------------------------------ bounds

MaxCalls == 1

MaxConcurrent == 2

MaxHelperCalls == 1

MaxVersions == 3

\* ------------------------------------------------------- JavaScript values

None == <<>>

Some(v) == <<v>>

OrDefault(opt, dflt) == IF opt = None THEN dflt ELSE opt[1]

\* !x for an optional string: undefined and '' are falsy
Falsy(opt) == opt = None \/ opt = Some("")

EmptyObject == {}

HasKey(obj, k) == \E p \in obj : p[1] = k

Get(obj, k) == (CHOOSE p \in obj : p[1] = k)[2]

Keys(obj) == {p[1] : p \in obj}

DeleteKey(obj, k) == {p \in obj : p[1] # k}

\* ------------------------------------------------------------ credential

\* the credentials a caller or the environment may supply
Credentials == {"key-A", "key-B"}

\* process.env.FASTLY_API_KEY at module load: unset, empty or a key
EnvKeys == {None, Some(""), Some("key-A")}

\* the arguments setApiKey is called with (a caller may pass undefined or '')
SetKeyArgs == {None, Some("")} \cup {Some(k) : k \in Credentials}

\* ---------------------------------------------------------- the dispatcher

DefaultBaseUrl == "https://api.fastly.com"

DefaultMethod == "GET"

DefaultTimeout == 5000

KeyMissingMessage == "Fastly API Key missing, try setting env var FASTLY_API_KEY"

UrlMissingMessage == "missing baseUrl and/or endpoint!"

SanitizedMessage == "request failed with sanitized options: "

\* new Error(message); `embedded` is the options object serialised into the
\* message by JSON.stringify, when the message carries one
Error(name, message, embedded) ==
    [name |-> name, message |-> message, embedded |-> embedded]

\* a request descriptor with every field left out
Desc0 ==
    [params |-> None, baseUrl |-> None, endpoint |-> None,
     headers |-> None, method |-> None, timeout |-> None]

\* if (!fastlyApiKey)
ApiKeyMissingOnlyUndefined(key) == key = None

ApiKeyMissing(key) == Falsy(key)

\* `${baseUrl}/${endpoint}`
BuildUrl(baseUrl, endpoint) == baseUrl \o "/" \o endpoint

defaultHeadersBlankKey(key) ==
    {<<"Fastly-Key", "">>, <<"Accept", "application/json">>}

defaultHeaders(key) ==
    {<<"Fastly-Key", key>>, <<"Accept", "application/json">>}

\* ramda.merge(a, b): the own properties of a, overwritten by those of b
mergeFirstWins(a, b) == a \cup {p \in b : ~HasKey(a, p[1])}

merge(a, b) == b \cup {p \in a : ~HasKey(b, p[1])}

\* The synchronous part of sendP: either it throws, or it builds the options
\* object it hands to request().
sendP(key, desc) ==
    IF ApiKeyMissing(key)
    THEN [threw |-> Some(Error("Error", KeyMissingMessage, None)), options |-> None]
    ELSE LET baseUrl  == IF Falsy(desc.baseUrl) THEN DefaultBaseUrl
                         ELSE desc.baseUrl[1]
             endpoint == OrDefault(desc.endpoint, "")
             headers  == OrDefault(desc.headers, EmptyObject)
             method   == OrDefault(desc.method, DefaultMethod)
             timeout  == OrDefault(desc.timeout, DefaultTimeout)
             url      == BuildUrl(baseUrl, endpoint)
             sendHeaders == merge(defaultHeaders(key[1]), headers)
         IN  IF url = "/"
             THEN [threw |-> Some(Error("Error", UrlMissingMessage, None)),
                   options |-> None]
             ELSE [threw |-> None,
                   options |-> Some([headers |-> sendHeaders, method |-> method,
                                     timeout |-> timeout, url |-> url,
                                     form |-> desc.params])]

\* request(options): the options are handed to the transport once
requestTwice(id, options) ==
    <<[options |-> options, call |-> id], [options |-> options, call |-> id]>>

request(id, options) == <<[options |-> options, call |-> id]>>

\* ------------------------------------------------------ the response handler

BodyEmpty == ""

BodyService == "{\"id\":\"abc\",\"name\":\"foo\"}"

BodyList == "[]"

BodyHtml == "<html>Bad Gateway</html>"

Bodies == {BodyEmpty, BodyService, BodyList, BodyHtml}

\* the status line of a delivered response; the handler is given the body only
StatusCodes == {200, 404}

Responses == [status : StatusCodes, body : Bodies]

\* JSON.parse(text) on the bodies above: the decoded value, or the SyntaxError
\* it throws
JSONParse(text) ==
    CASE text = BodyService ->
           [ok |-> TRUE, error |-> None,
            value |-> Some([t |-> "object",
                            props |-> {<<"id", "abc">>, <<"name", "foo">>}])]
      [] text = BodyList ->
           [ok |-> TRUE, error |-> None,
            value |-> Some([t |-> "array", props |-> {}])]
      [] text = BodyEmpty ->
           [ok |-> FALSE,
            error |-> Some(Error("SyntaxError", "Unexpected end of JSON input", None)),
            value |-> None]
      [] OTHER ->
           [ok |-> FALSE,
            error |-> Some(Error("SyntaxError", "Unexpected token < in JSON", None)),
            value |-> None]

\* let optionsLog = options; delete optionsLog.headers['Fastly-Key']
sanitizeKeepsKey(options) == options

sanitize(options) ==
    [options EXCEPT !.headers = DeleteKey(options.headers, "Fastly-Key")]

\* The .then callback of sendP, given the options object of the call and the
\* body the transport resolved with: the state the returned promise settles
\* in, and the options object as the callback leaves it.
onResponseIgnoresEmpty(options, response) ==
    LET parsed == JSONParse(response)
    IN  IF response = "" \/ ~parsed.ok
        THEN [options |-> options, error |-> None,
              value |-> Some([t |-> "null", props |-> {}]), state |-> "resolved"]
        ELSE [options |-> options, error |-> None, value |-> parsed.value,
              state |-> "resolved"]

onResponse(options, response) ==
    IF response = ""
    THEN LET optionsLog == sanitize(options)
         IN  [options |-> optionsLog,
              error |-> Some(Error("Error", SanitizedMessage, Some(optionsLog))),
              value |-> None, state |-> "rejected"]
    ELSE LET parsed == JSONParse(response)
         IN  IF parsed.ok
             THEN [options |-> options, error |-> None, value |-> parsed.value,
                   state |-> "resolved"]
             ELSE [options |-> options, error |-> parsed.error, value |-> None,
                   state |-> "rejected"]

\* ------------------------------------------------------ filterActiveVersion

\* version.active holds a JavaScript value: true, false, or the number 1
\* (truthy, but not === true)
ActiveValues == {"true", "false", "1"}

VersionRecords == [number : {"1", "2"}, active : ActiveValues]

filterLastActive(versions) ==
    LET actives == SelectSeq(versions, LAMBDA version : version.active = "true")
    IN  IF Len(actives) = 0 THEN None ELSE Some(actives[Len(actives)])

\* ramda.filter keeps the order of the list; actives[0] of an empty array is
\* undefined
filterActiveVersion(versions) ==
    LET actives == SelectSeq(versions, LAMBDA version : version.active = "true")
    IN  IF Len(actives) = 0 THEN None ELSE Some(actives[1])

\* ------------------------------------------------------------------ actions

\* the arguments of a call, by the parameter names of the helpers
Args0 ==
    [name |-> "", key |-> "", url |-> "", version |-> "", serviceId |-> "",
     data |-> None, soft |-> FALSE]

\* A call of sendP, directly (fn = "sendP") or from a helper, while fewer than
\* cap calls have been made.
Call(fn, args, desc, cap) ==
    /\ Len(calls) < cap
    /\ LET r  == sendP(fastlyApiKey, desc)
           id == Len(calls) + 1
       IN  /\ calls' = Append(calls,
                 [desc |-> desc, options |-> r.options, error |-> r.threw,
                  value |-> None, response |-> None,
                  state |-> IF r.threw = None THEN "pending" ELSE "threw",
                  fn |-> fn, args |-> args, keyAtCall |-> fastlyApiKey])
           /\ wire' = IF r.threw = None THEN wire \o request(id, r.options[1])
                      ELSE wire
    /\ UNCHANGED <<fastlyApiKey, filtered>>

\* The transport resolves the request of call i with a body.
Respond(i, resp) ==
    /\ i \in 1..Len(calls)
    /\ calls[i].state = "pending"
    /\ LET out == onResponse(calls[i].options[1], resp.body)
       IN  calls' = [calls EXCEPT ![i] =
                        [@ EXCEPT !.state = out.state, !.value = out.value,
                                  !.error = out.error,
                                  !.options = Some(out.options),
                                  !.response = Some(resp)]]
    /\ UNCHANGED <<fastlyApiKey, wire, filtered>>

\* The transport rejects the request of call i (DNS, connect, TLS, timeout):
\* the .then callback does not run and the rejection is the call's outcome.
TransportError(i) ==
    /\ i \in 1..Len(calls)
    /\ calls[i].state = "pending"
    /\ calls' = [calls EXCEPT ![i] =
                    [@ EXCEPT !.state = "rejected",
                              !.error = Some(Error("RequestError", "ETIMEDOUT", None))]]
    /\ UNCHANGED <<fastlyApiKey, wire, filtered>>

setApiKey(key) ==
    /\ fastlyApiKey' = key
    /\ UNCHANGED <<calls, wire, filtered>>

\* -------------------------------------------------------- endpoint helpers
\* Each helper builds the descriptor it passes to sendP.

SoftPurgeHeaders(soft) == IF soft THEN {<<"Fastly-Soft-Purge", "1">>} ELSE {}

\* encodeURIComponent on the names used below
encodeURIComponent(name) == IF name = "my site" THEN "my%20site" ELSE name

purgeP(serviceId, key, soft) ==
    [Desc0 EXCEPT !.endpoint = Some("/service/" \o serviceId \o "/purge/" \o key),
                  !.method = Some("POST"),
                  !.headers = Some(SoftPurgeHeaders(soft))]

purgeUrlP(url, soft) ==
    [Desc0 EXCEPT !.baseUrl = Some(url), !.method = Some("PURGE"),
                  !.headers = Some(SoftPurgeHeaders(soft))]

purgeAllP(serviceId) ==
    [Desc0 EXCEPT !.endpoint = Some("/service/" \o serviceId \o "/purge_all"),
                  !.method = Some("POST")]

createBackendP(serviceId, version, data) ==
    [Desc0 EXCEPT !.endpoint = Some("/service/" \o serviceId \o "/version/"
                                    \o version \o "/backend"),
                  !.method = Some("POST"), !.params = data]

deleteBackendP(serviceId, version, name) ==
    [Desc0 EXCEPT !.endpoint = Some("/service/" \o serviceId \o "/version/"
                                    \o version \o "/backend/" \o name),
                  !.method = Some("DELETE")]

createServiceP(name) ==
    [Desc0 EXCEPT !.endpoint = Some("/service"), !.method = Some("POST"),
                  !.params = Some({<<"name", name>>})]

updateServiceP(serviceId, params) ==
    [Desc0 EXCEPT !.endpoint = Some("/service/" \o serviceId),
                  !.method = Some("PUT"), !.params = params]

createServiceVersionP(serviceId) ==
    [Desc0 EXCEPT !.endpoint = Some("/service/" \o serviceId \o "/version"),
                  !.method = Some("POST")]

updateServiceVersionP(serviceId, version, data) ==
    [Desc0 EXCEPT !.endpoint = Some("/service/" \o serviceId \o "/version/"
                                    \o version),
                  !.method = Some("PUT"), !.params = data]

validateServiceVersionP(serviceId, version) ==
    [Desc0 EXCEPT !.endpoint = Some("/service/" \o serviceId \o "/version/"
                                    \o version \o "/validate")]

activateServiceVersionP(serviceId, version) ==
    [Desc0 EXCEPT !.endpoint = Some("/service/" \o serviceId \o "/version/"
                                    \o version \o "/activate"),
                  !.method = Some("PUT")]

deactivateServiceVersionP(serviceId, version) ==
    [Desc0 EXCEPT !.endpoint = Some("/service/" \o serviceId \o "/version/"
                                    \o version \o "/deactivate"),
                  !.method = Some("PUT")]

cloneServiceVersion(serviceId, version) ==
    [Desc0 EXCEPT !.endpoint = Some("/service/" \o serviceId \o "/version/"
                                    \o version \o "/clone"),
                  !.method = Some("PUT")]

lockServiceVersion(serviceId, version) ==
    [Desc0 EXCEPT !.endpoint = Some("/service/" \o serviceId \o "/version/"
                                    \o version \o "/lock"),
                  !.method = Some("PUT")]

deleteServiceP(serviceId) ==
    [Desc0 EXCEPT !.endpoint = Some("/service/" \o serviceId),
                  !.method = Some("DELETE")]

renameServiceP(serviceId, newName) ==
    [Desc0 EXCEPT !.endpoint = Some("/service/" \o serviceId),
                  !.method = Some("PUT"),
                  !.params = Some({<<"name", newName>>})]

ListServicesP == [Desc0 EXCEPT !.endpoint = Some("/service")]

getServiceP(serviceId) ==
    [Desc0 EXCEPT !.endpoint = Some("/service/" \o serviceId)]

getServiceByNameP(name) ==
    [Desc0 EXCEPT !.endpoint = Some("/service/search?name="
                                    \o encodeURIComponent(name))]

getServiceDetailsP(serviceId) ==
    [Desc0 EXCEPT !.endpoint = Some("/service/" \o serviceId \o "/details")]

getServiceDomainsP(id) ==
    [Desc0 EXCEPT !.endpoint = Some("/service/" \o id \o "/domain")]

createDomainP(serviceId, version, data) ==
    [Desc0 EXCEPT !.endpoint = Some("/service/" \o serviceId \o "/version/"
                                    \o version \o "/domain"),
                  !.method = Some("POST"), !.params = data]

checkAllDomainsP(serviceId, version) ==
    [Desc0 EXCEPT !.endpoint = Some("/service/" \o serviceId \o "/version/"
                                    \o version \o "/domain/check_all")]

createRequestSettingP(serviceId, version, settings) ==
    [Desc0 EXCEPT !.endpoint = Some("/service/" \o serviceId \o "/version/"
                                    \o version \o "/request_settings"),
                  !.method = Some("POST"), !.params = settings]

updateSettingsP(serviceId, version, settings) ==
    [Desc0 EXCEPT !.endpoint = Some("/service/" \o serviceId \o "/version/"
                                    \o version \o "/settings"),
                  !.method = Some("PUT"), !.params = settings]

\* the arguments the helpers are called with
ServiceIds == {"SU1Z0isxPaozGVKXdv0eY"}

Versions == {"1", "2"}

Names == {"foo", "my site"}

DataArgs == {None, Some({<<"name", "foo">>})}

PurgeUrls == {"http://example.com/x", ""}

\* the arguments of a helper call, as recorded with the call
Args(serviceId, version, name, data, soft, key, url) ==
    [name |-> name, key |-> key, url |-> url, version |-> version,
     serviceId |-> serviceId, data |-> data, soft |-> soft]

\* A call of one helper, while fewer than cap calls have been made.
HelperCall(cap) ==
    \E s \in ServiceIds, v \in Versions, n \in Names, d \in DataArgs,
       soft \in BOOLEAN, u \in PurgeUrls :
        \/ Call("purgeP", Args(s, "", "", None, soft, n, ""), purgeP(s, n, soft), cap)
        \/ Call("purgeUrlP", Args("", "", "", None, soft, "", u), purgeUrlP(u, soft), cap)
        \/ Call("purgeAllP", Args(s, "", "", None, FALSE, "", ""), purgeAllP(s), cap)
        \/ Call("createBackendP", Args(s, v, "", d, FALSE, "", ""),
                createBackendP(s, v, d), cap)
        \/ Call("deleteBackendP", Args(s, v, n, None, FALSE, "", ""),
                deleteBackendP(s, v, n), cap)
        \/ Call("createServiceP", Args("", "", n, None, FALSE, "", ""),
                createServiceP(n), cap)
        \/ Call("updateServiceP", Args(s, "", "", d, FALSE, "", ""),
                updateServiceP(s, d), cap)
        \/ Call("createServiceVersionP", Args(s, "", "", None, FALSE, "", ""),
                createServiceVersionP(s), cap)
        \/ Call("updateServiceVersionP", Args(s, v, "", d, FALSE, "", ""),
                updateServiceVersionP(s, v, d), cap)
        \/ Call("validateServiceVersionP", Args(s, v, "", None, FALSE, "", ""),
                validateServiceVersionP(s, v), cap)
        \/ Call("activateServiceVersionP", Args(s, v, "", None, FALSE, "", ""),
                activateServiceVersionP(s, v), cap)
        \/ Call("deactivateServiceVersionP", Args(s, v, "", None, FALSE, "", ""),
                deactivateServiceVersionP(s, v), cap)
        \/ Call("cloneServiceVersion", Args(s, v, "", None, FALSE, "", ""),
                cloneServiceVersion(s, v), cap)
        \/ Call("lockServiceVersion", Args(s, v, "", None, FALSE, "", ""),
                lockServiceVersion(s, v), cap)
        \/ Call("deleteServiceP", Args(s, "", "", None, FALSE, "", ""),
                deleteServiceP(s), cap)
        \/ Call("renameServiceP", Args(s, "", n, None, FALSE, "", ""),
                renameServiceP(s, n), cap)
        \/ Call("ListServicesP", Args0, ListServicesP, cap)
        \/ Call("getServiceP", Args(s, "", "", None, FALSE, "", ""), getServiceP(s), cap)
        \/ Call("getServiceByNameP", Args("", "", n, None, FALSE, "", ""),
                getServiceByNameP(n), cap)
        \/ Call("getServiceDetailsP", Args(s, "", "", None, FALSE, "", ""),
                getServiceDetailsP(s), cap)
        \/ Call("getServiceDomainsP", Args(s, "", "", None, FALSE, "", ""),
                getServiceDomainsP(s), cap)
        \/ Call("createDomainP", Args(s, v, "", d, FALSE, "", ""),
                createDomainP(s, v, d), cap)
        \/ Call("checkAllDomainsP", Args(s, v, "", None, FALSE, "", ""),
                checkAllDomainsP(s, v), cap)
        \/ Call("createRequestSettingP", Args(s, v, "", d, FALSE, "", ""),
                createRequestSettingP(s, v, d), cap)
        \/ Call("updateSettingsP", Args(s, v, "", d, FALSE, "", ""),
                updateSettingsP(s, v, d), cap)

\* ------------------------------------------------- the dispatcher, one call

HeaderOverrides ==
    {None, Some(EmptyObject),
     Some({<<"Fastly-Key", "caller-key">>}),
     Some({<<"Accept", "text/plain">>, <<"X-Trace", "t1">>}),
     Some({<<"X-Auth", "key-A">>})}

\* the request descriptors sendP is called with
Descriptors ==
    {[Desc0 EXCEPT !.baseUrl = b, !.endpoint = e] :
        b \in {None, Some(""), Some("http://example.com/x")},
        e \in {None, Some(""), Some("service")}}
    \cup {[Desc0 EXCEPT !.endpoint = Some("service"), !.headers = h] :
            h \in HeaderOverrides}
    \cup {[Desc0 EXCEPT !.headers = Some({<<"Fastly-Key", "caller-key">>})]}
    \cup {[Desc0 EXCEPT !.endpoint = Some("service"), !.method = Some("POST"),
                        !.params = Some(p), !.timeout = Some(100)] :
            p \in {{<<"name", "foo">>}, {<<"token", "key-A">>}}}

NoFilter == [versions |-> <<>>, result |-> None, ran |-> FALSE]

Init ==
    /\ fastlyApiKey \in EnvKeys
    /\ calls = <<>>
    /\ wire = <<>>
    /\ filtered = NoFilter

Next ==
    \/ \E key \in SetKeyArgs : setApiKey(key)
    \/ \E desc \in Descriptors : Call("sendP", Args0, desc, MaxCalls)
    \/ \E i \in 1..MaxCalls + 1, resp \in Responses : Respond(i, resp)
    \/ \E i \in 1..MaxCalls + 1 : TransportError(i)

Spec == Init /\ [][Next]_vars

\* --------------------------------------------------- the endpoint helpers

NextHelpers ==
    \/ \E key \in SetKeyArgs : setApiKey(key)
    \/ HelperCall(MaxHelperCalls)
    \/ \E i \in 1..MaxHelperCalls + 1, resp \in Responses : Respond(i, resp)
    \/ \E i \in 1..MaxHelperCalls + 1 : TransportError(i)

SpecHelpers == Init /\ [][NextHelpers]_vars

\* ------------------------------------------ concurrent calls and the credential

ConcDescriptors ==
    {[Desc0 EXCEPT !.endpoint = Some("service")],
     [Desc0 EXCEPT !.endpoint = Some("service"),
                   !.headers = Some({<<"Fastly-Key", "caller-key">>})]}

ConcResponses == {[status |-> 200, body |-> BodyService],
                  [status |-> 200, body |-> BodyEmpty]}

NextConc ==
    \/ \E key \in SetKeyArgs : setApiKey(key)
    \/ \E desc \in ConcDescriptors : Call("sendP", Args0, desc, MaxConcurrent)
    \/ Call("createServiceP", Args("", "", "foo", None, FALSE, "", ""),
            createServiceP("foo"), MaxConcurrent)
    \/ Call("purgeUrlP", Args("", "", "", None, TRUE, "", "http://example.com/x"),
            purgeUrlP("http://example.com/x", TRUE), MaxConcurrent)
    \/ \E i \in 1..MaxConcurrent + 1, resp \in ConcResponses : Respond(i, resp)
    \/ \E i \in 1..MaxConcurrent + 1 : TransportError(i)

SpecConc == Init /\ [][NextConc]_vars

\* ------------------------------------------------- filterActiveVersion calls

SeqsUpTo(S, n) == UNION {[1..k -> S] : k \in 0..n}

FilterCall(versions) ==
    /\ filtered' = [versions |-> versions,
                    result |-> filterActiveVersion(versions), ran |-> TRUE]
    /\ UNCHANGED <<fastlyApiKey, calls, wire>>

NextFilter ==
    \/ \E key \in SetKeyArgs : setApiKey(key)
    \/ \E versions \in SeqsUpTo(VersionRecords, MaxVersions) : FilterCall(versions)

SpecFilter == Init /\ [][NextFilter]_vars

\* ------------------------------------------------------------------ claims

CallIds == 1..Len(calls)

\* the requests handed to the transport for call i
RequestsOf(i) == {j \in 1..Len(wire) : wire[j].call = i}

KeyMissingError == Some(Error("Error", KeyMissingMessage, None))

AbsentKey(key) == key = None \/ key = Some("")

\* C1: a call of sendP or of a helper made while the credential is undefined
\* or empty fails with the missing-key error and hands no request to the
\* transport; a call made while it is a non-empty key does not fail with that
\* error.
C1_AbsentKeyFailsEveryCall ==
    \A i \in CallIds :
        /\ AbsentKey(calls[i].keyAtCall) =>
              /\ calls[i].state = "threw"
              /\ calls[i].error = KeyMissingError
              /\ RequestsOf(i) = {}
        /\ ~AbsentKey(calls[i].keyAtCall) => calls[i].error # KeyMissingError

\* a helper call failed on an empty credential, and after setApiKey a later
\* call was dispatched
C1_Witness ==
    /\ Len(calls) = 2
    /\ calls[1].fn = "createServiceP"
    /\ calls[1].keyAtCall = Some("")
    /\ calls[1].state = "threw"
    /\ calls[2].keyAtCall = Some("key-B")
    /\ calls[2].state = "pending"
    /\ RequestsOf(2) # {}

\* C2: a sendP call made with a credential set and with baseUrl and endpoint
\* both missing or empty fails with the 'missing baseUrl and/or endpoint!'
\* error and hands no request to the transport.
C2_BothMissingFails ==
    \A i \in CallIds :
        (/\ calls[i].fn = "sendP"
         /\ ~AbsentKey(calls[i].keyAtCall)
         /\ Falsy(calls[i].desc.baseUrl)
         /\ Falsy(calls[i].desc.endpoint))
        => /\ calls[i].state = "threw"
           /\ calls[i].error = Some(Error("Error", UrlMissingMessage, None))
           /\ RequestsOf(i) = {}

\* the headers the caller passed to call i
CallerHeaders(i) == OrDefault(calls[i].desc.headers, {})

\* C3: the headers of an outbound request are the caller's headers, each with
\* the caller's value, plus 'Fastly-Key' (the credential at call time) and
\* 'Accept: application/json' where the caller supplied no such key, and
\* nothing else.
C3_MergedHeaders ==
    \A j \in 1..Len(wire) :
        LET i == wire[j].call
            sent == wire[j].options.headers
            caller == CallerHeaders(i)
        IN  /\ caller \subseteq sent
            /\ ~HasKey(caller, "Fastly-Key")
                  => <<"Fastly-Key", calls[i].keyAtCall[1]>> \in sent
            /\ ~HasKey(caller, "Accept")
                  => <<"Accept", "application/json">> \in sent
            /\ Keys(sent) = Keys(caller) \cup {"Fastly-Key", "Accept"}
            /\ Cardinality(sent) = Cardinality(Keys(sent))

\* a request went out whose caller overrode Accept and added a header of its
\* own, with the default Fastly-Key kept
C3_Witness ==
    \E j \in 1..Len(wire) :
        /\ <<"Accept", "text/plain">> \in CallerHeaders(wire[j].call)
        /\ <<"Accept", "text/plain">> \in wire[j].options.headers
        /\ <<"X-Trace", "t1">> \in wire[j].options.headers
        /\ <<"Fastly-Key", "key-B">> \in wire[j].options.headers

\* the value v appears in the serialised options: as the url, the method, a
\* header name or value, or a form field name or value
Mentions(options, v) ==
    \/ options.url = v
    \/ options.method = v
    \/ \E p \in options.headers : p[1] = v \/ p[2] = v
    \/ options.form # None /\ \E p \in options.form[1] : p[1] = v \/ p[2] = v

\* the caller passed the value v itself: as the method, the url, a form field
\* or a header other than 'Fastly-Key'
CallerSupplied(i, v) ==
    \/ calls[i].desc.method = Some(v)
    \/ calls[i].desc.baseUrl = Some(v)
    \/ calls[i].desc.endpoint = Some(v)
    \/ \E p \in CallerHeaders(i) : p[1] # "Fastly-Key" /\ (p[1] = v \/ p[2] = v)
    \/ calls[i].desc.params # None
         /\ \E p \in calls[i].desc.params[1] : p[1] = v \/ p[2] = v

\* the calls whose transport resolved with an empty body
EmptyBodyCalls ==
    {i \in CallIds : calls[i].response # None /\ calls[i].response[1].body = ""}

\* the request of call i as it went out (a dispatched call has exactly one)
SentOptions(i) == wire[CHOOSE j \in RequestsOf(i) : TRUE].options

\* C4 as stated: on an empty body the call rejects with an Error whose message
\* carries the request's method and url and does not contain the credential.
C4_MessageNeverHoldsCredential ==
    \A i \in EmptyBodyCalls :
        /\ calls[i].state = "rejected"
        /\ calls[i].error # None
        /\ calls[i].error[1].name = "Error"
        /\ calls[i].error[1].embedded # None
        /\ calls[i].error[1].embedded[1].method = SentOptions(i).method
        /\ calls[i].error[1].embedded[1].url = SentOptions(i).url
        /\ ~Mentions(calls[i].error[1].embedded[1], calls[i].keyAtCall[1])

\* C4 (amended): on an empty body the call rejects with an Error whose message
\* carries the request's method and url and no 'Fastly-Key' header; the
\* credential appears in it only where the caller passed that value in the
\* method, the url, the params or a header of another name.
C4_MessageRedactsKeyHeader ==
    \A i \in EmptyBodyCalls :
        /\ calls[i].state = "rejected"
        /\ calls[i].error # None
        /\ calls[i].error[1].name = "Error"
        /\ calls[i].error[1].message = SanitizedMessage
        /\ calls[i].error[1].embedded # None
        /\ calls[i].error[1].embedded[1].method = SentOptions(i).method
        /\ calls[i].error[1].embedded[1].url = SentOptions(i).url
        /\ ~HasKey(calls[i].error[1].embedded[1].headers, "Fastly-Key")
        /\ Mentions(calls[i].error[1].embedded[1], calls[i].keyAtCall[1])
              => CallerSupplied(i, calls[i].keyAtCall[1])

\* an empty body came back for a request that carried the credential in its
\* default 'Fastly-Key' header
C4_Witness ==
    \E i \in EmptyBodyCalls :
        /\ <<"Fastly-Key", "key-A">> \in SentOptions(i).headers
        /\ calls[i].keyAtCall = Some("key-A")
        /\ calls[i].desc.method = Some("POST")
        /\ calls[i].state = "rejected"

\* the bodies that are JSON texts, with the value each decodes to
DecodedService ==
    [t |-> "object", props |-> {<<"id", "abc">>, <<"name", "foo">>}]

DecodedList == [t |-> "array", props |-> {}]

C6_PurgeUrlTargetsUrl ==
    \A i \in CallIds :
        (calls[i].fn = "purgeUrlP" /\ calls[i].state # "threw") =>
            /\ Cardinality(RequestsOf(i)) = 1
            /\ SentOptions(i).method = "PURGE"
            /\ SentOptions(i).url = calls[i].args.url
            /\ <<"Fastly-Soft-Purge", "1">> \in SentOptions(i).headers
                  <=> calls[i].args.soft

\* the method and the path of each helper in the table of the specification,
\* for the arguments a of the call
TableMethod(fn) ==
    CASE fn \in {"purgeP", "purgeAllP", "createBackendP", "createServiceP",
                 "createServiceVersionP", "createDomainP",
                 "createRequestSettingP"} -> "POST"
      [] fn \in {"deleteBackendP", "deleteServiceP"} -> "DELETE"
      [] fn \in {"updateServiceP", "renameServiceP", "updateServiceVersionP",
                 "activateServiceVersionP", "deactivateServiceVersionP",
                 "cloneServiceVersion", "lockServiceVersion",
                 "updateSettingsP"} -> "PUT"
      [] fn = "purgeUrlP" -> "PURGE"
      [] OTHER -> "GET"

TablePath(fn, a) ==
    LET S  == "/service/" \o a.serviceId
        SV == "/service/" \o a.serviceId \o "/version/" \o a.version
    IN  CASE fn = "purgeP" -> S \o "/purge/" \o a.key
          [] fn = "purgeAllP" -> S \o "/purge_all"
          [] fn = "createBackendP" -> SV \o "/backend"
          [] fn = "deleteBackendP" -> SV \o "/backend/" \o a.name
          [] fn \in {"createServiceP", "ListServicesP"} -> "/service"
          [] fn \in {"updateServiceP", "renameServiceP", "deleteServiceP",
                     "getServiceP"} -> S
          [] fn = "getServiceByNameP" ->
                "/service/search?name="
                \o (IF a.name = "my site" THEN "my%20site" ELSE a.name)
          [] fn = "getServiceDetailsP" -> S \o "/details"
          [] fn = "getServiceDomainsP" -> S \o "/domain"
          [] fn = "createDomainP" -> SV \o "/domain"
          [] fn = "checkAllDomainsP" -> SV \o "/domain/check_all"
          [] fn = "createServiceVersionP" -> S \o "/version"
          [] fn = "updateServiceVersionP" -> SV
          [] fn = "validateServiceVersionP" -> SV \o "/validate"
          [] fn = "activateServiceVersionP" -> SV \o "/activate"
          [] fn = "deactivateServiceVersionP" -> SV \o "/deactivate"
          [] fn = "cloneServiceVersion" -> SV \o "/clone"
          [] fn = "lockServiceVersion" -> SV \o "/lock"
          [] fn = "createRequestSettingP" -> SV \o "/request_settings"
          [] fn = "updateSettingsP" -> SV \o "/settings"
          [] OTHER -> ""

\* C7: the request of every endpoint helper has the table's method and the
\* url made of the default base url followed by the table's path, and a
\* decoded success body is what the caller gets.
C7_HelpersFollowTable ==
    \A i \in CallIds :
        (calls[i].fn \notin {"sendP", "purgeUrlP"} /\ calls[i].state # "threw") =>
            /\ SentOptions(i).method = TableMethod(calls[i].fn)
            /\ SentOptions(i).url
                  = DefaultBaseUrl \o TablePath(calls[i].fn, calls[i].args)
            /\ (calls[i].response # None
                  /\ calls[i].response[1].body = BodyService)
                  => calls[i].value = Some(DecodedService)

\* the positions of the records whose active field is true
ActiveAt(versions) == {k \in 1..Len(versions) : versions[k].active = "true"}

\* C8: filterActiveVersion returns the first record whose active field is
\* true, undefined when there is none, whatever the number of active records,
\* and hands nothing to the transport (it runs with the credential absent).
C8_FirstActive ==
    filtered.ran =>
        /\ ActiveAt(filtered.versions) = {} => filtered.result = None
        /\ ActiveAt(filtered.versions) # {} =>
              \E k \in ActiveAt(filtered.versions) :
                  /\ \A m \in ActiveAt(filtered.versions) : k <= m
                  /\ filtered.result = Some(filtered.versions[k])
        /\ wire = <<>>
        /\ calls = <<>>

\* two distinct records are active after an inactive one and a truthy one,
\* the first active one was returned, and no credential is set
C8_Witness ==
    /\ filtered.ran
    /\ fastlyApiKey = None
    /\ Len(filtered.versions) = 3
    /\ filtered.versions[1].active = "1"
    /\ filtered.versions[2] = [number |-> "2", active |-> "true"]
    /\ filtered.versions[3] = [number |-> "1", active |-> "true"]
    /\ filtered.result = Some([number |-> "2", active |-> "true"])

\* C9: the 'Fastly-Key' header of an outbound request the caller did not
\* override is the credential current when its call was made, whatever
\* setApiKey did since; a change of the credential changes no request that
\* went out and no call's state or outcome.
C9_HeaderIsKeyAtCall ==
    /\ [](\A j \in 1..Len(wire) :
            ~HasKey(CallerHeaders(wire[j].call), "Fastly-Key") =>
                /\ HasKey(wire[j].options.headers, "Fastly-Key")
                /\ Get(wire[j].options.headers, "Fastly-Key")
                      = calls[wire[j].call].keyAtCall[1])
    /\ [][fastlyApiKey' # fastlyApiKey => (wire' = wire /\ calls' = calls)]_vars

\* a request went out under key-A and its call resolved, the credential is
\* key-B by now, and a later call went out under key-B
C9_Witness ==
    /\ Len(wire) = 2
    /\ wire[1].call = 1
    /\ <<"Fastly-Key", "key-A">> \in wire[1].options.headers
    /\ calls[1].state = "resolved"
    /\ fastlyApiKey = Some("key-B")
    /\ wire[2].call = 2
    /\ <<"Fastly-Key", "key-B">> \in wire[2].options.headers
    /\ ~HasKey(CallerHeaders(1), "Fastly-Key")
    /\ ~HasKey(CallerHeaders(2), "Fastly-Key")

\* C10: a call that threw a configuration error has handed no request to the
\* transport and every other call exactly one, pending or settled.
C10_OneRequestPerCall ==
    \A i \in CallIds :
        Cardinality(RequestsOf(i))
            = IF calls[i].state = "threw" THEN 0 ELSE 1

\* one call settled on an empty body and another still in flight, each with
\* its request out
C10_Witness ==
    /\ Len(calls) = 2
    /\ calls[1].state = "rejected"
    /\ calls[1].response # None
    /\ calls[2].state = "pending"
    /\ RequestsOf(1) # {}
    /\ RequestsOf(2) # {}

====
